---------------------------- MODULE Spec2Model ----------------------------
(***************************************************************************)
(* A model of cargo-shuttle's config.rs: the error-log record parser       *)
(* (ErrorLog::try_new), the batch extractors                               *)
(* (ErrorLogManager::fetch_last_error_from_file, ExplainStruct::try_from), *)
(* the explain assembler (fetch_file_contents_from_errlogs), the           *)
(* ConfigManager file operations and the RequestContext resolver.          *)
(*                                                                         *)
(* Text is modelled as sequences of one-character strings, so that         *)
(* splitting, joining and number parsing are computed, not assumed.        *)
(* Option<T> is modelled as a sequence of length 0 (None) or 1 (Some).     *)
(***************************************************************************)
EXTENDS Integers, Sequences, FiniteSets, TLC

VARIABLES
    tnInput,     \* the Vec<String> handed to ErrorLog::try_new
    tnResult,    \* what ErrorLog::try_new did with it
    logfile,     \* logs.txt: whether it exists, and its text
    result,      \* what the explain command in progress holds: its last
                 \* operation, the text it read and what it returned
    env,         \* the environment variable SHUTTLE_API_KEY
    globalFile,  \* config.toml: whether it exists, and its text
    localFiles,  \* Shuttle.toml in the workspace root and in the working
                 \* directory
    ctx,         \* the RequestContext, once load_global has built it
    ret          \* the last configuration call: its arguments, the context
                 \* it was made on, what it returned and what it saved

logVars == <<tnInput, tnResult, logfile, result>>

cfgVars == <<env, globalFile, localFiles, ctx, ret>>

vars == <<tnInput, tnResult, logfile, result, env, globalFile, localFiles,
          ctx, ret>>

(***************************************************************************)
(* Option                                                                  *)
(***************************************************************************)
None == <<>>

Some(v) == <<v>>

IsSome(o) == Len(o) = 1

Unwrap(o) == o[1]

(***************************************************************************)
(* Text                                                                    *)
(***************************************************************************)
\* The characters the model's texts are made of, in byte order.
Alphabet ==
    <<"\n", "+", "-", "0", "1", "2", "3", "4", "5", "6", "7", "8", "9",
      "a", "b", "e", "g", "i", "m", "n", "o", "r", "w", "x", "|">>

CharOrd(c) == CHOOSE i \in 1..Len(Alphabet) : Alphabet[i] = c

Digits == {"0", "1", "2", "3", "4", "5", "6", "7", "8", "9"}

DigitVal(c) ==
    CASE c = "0" -> 0 [] c = "1" -> 1 [] c = "2" -> 2 [] c = "3" -> 3
      [] c = "4" -> 4 [] c = "5" -> 5 [] c = "6" -> 6 [] c = "7" -> 7
      [] c = "8" -> 8 [] c = "9" -> 9

DELIM == <<"|", "|">>

NONE_STR == <<"n", "o", "n", "e">>

ERROR_STR == <<"e", "r", "r", "o", "r">>

WARNING_STR == <<"w", "a", "r", "n", "i", "n", "g">>

NL == <<"\n">>

MinOf(S) == CHOOSE i \in S : \A j \in S : i <= j

\* str::lines(): pieces ended by "\n"; what follows the last "\n" is a line
\* when it is not empty.
RECURSIVE LinesFrom(_, _, _)
LinesFrom(s, from, acc) ==
    IF from > Len(s) THEN acc
    ELSE LET ends == {i \in from..Len(s) : s[i] = "\n"}
         IN  IF ends = {} THEN Append(acc, SubSeq(s, from, Len(s)))
             ELSE LinesFrom(s, MinOf(ends) + 1,
                            Append(acc, SubSeq(s, from, MinOf(ends) - 1)))

Lines(s) == LinesFrom(s, 1, <<>>)

\* str::split("||"): leftmost non-overlapping matches; always at least one
\* piece, the last one possibly empty.
RECURSIVE SplitFrom(_, _, _)
SplitFrom(s, from, acc) ==
    LET at == {i \in from..(Len(s) - 1) :
                  s[i] = DELIM[1] /\ s[i + 1] = DELIM[2]}
    IN  IF at = {} THEN Append(acc, SubSeq(s, from, Len(s)))
        ELSE SplitFrom(s, MinOf(at) + 2,
                       Append(acc, SubSeq(s, from, MinOf(at) - 1)))

Split(s) == SplitFrom(s, 1, <<>>)

\* [String]::join("||")
RECURSIVE Join(_)
Join(fields) ==
    IF Len(fields) = 0 THEN <<>>
    ELSE IF Len(fields) = 1 THEN fields[1]
    ELSE fields[1] \o DELIM \o Join(Tail(fields))

Reverse(s) == [i \in 1..Len(s) |-> s[Len(s) + 1 - i]]

\* String's PartialOrd: lexicographic on bytes.
RECURSIVE StrLess(_, _)
StrLess(a, b) ==
    IF Len(b) = 0 THEN FALSE
    ELSE IF Len(a) = 0 THEN TRUE
    ELSE IF a[1] = b[1] THEN StrLess(Tail(a), Tail(b))
    ELSE CharOrd(a[1]) < CharOrd(b[1])

(***************************************************************************)
(* str::parse for the integer types                                        *)
(***************************************************************************)
U16_MAX == 65535

\* The value of a run of digits, None when a character is not a digit or the
\* value passes max (checked_mul / checked_add in the standard library).
RECURSIVE DigitsValue(_, _, _, _)
DigitsValue(s, i, acc, max) ==
    IF i > Len(s) THEN Some(acc)
    ELSE IF s[i] \notin Digits THEN None
    ELSE IF acc * 10 + DigitVal(s[i]) > max THEN None
    ELSE DigitsValue(s, i + 1, acc * 10 + DigitVal(s[i]), max)

\* No number text of the model is larger in magnitude than this, and i64
\* holds it: the overflow branch of parse::<i64>() is out of the model's
\* reach, the one of parse::<u16>() is within it.
I64ModelMax == 999999

\* str::parse::<i64>(): an optional sign, then at least one digit.
ParseI64(s) ==
    IF Len(s) = 0 THEN None
    ELSE IF s[1] \in {"+", "-"}
         THEN IF Len(s) = 1 THEN None
              ELSE LET v == DigitsValue(Tail(s), 1, 0, I64ModelMax)
                   IN  IF ~IsSome(v) THEN None
                       ELSE IF s[1] = "-" THEN Some(0 - Unwrap(v)) ELSE v
         ELSE DigitsValue(s, 1, 0, I64ModelMax)

\* str::parse::<u16>(): "+" is accepted, "-" is not a digit of an unsigned
\* type, and the value is at most U16_MAX.
ParseU16(s) ==
    IF Len(s) = 0 THEN None
    ELSE IF s[1] \in {"+", "-"} /\ Len(s) = 1 THEN None
    ELSE IF s[1] = "+" THEN DigitsValue(Tail(s), 1, 0, U16_MAX)
    ELSE DigitsValue(s, 1, 0, U16_MAX)

(***************************************************************************)
(* ErrorLog                                                                *)
(***************************************************************************)
Ok(v) == [tag |-> "Ok", val |-> v]

Err(e) == [tag |-> "Err", val |-> e]

Panic == [tag |-> "Panic", val |-> <<>>]

IsOk(r) == r.tag = "Ok"

NoneIfSentinel(field) == IF field # NONE_STR THEN Some(field) ELSE None

\* file_line / file_col: Some(parse::<u16>().unwrap()) when the field parses
\* as an i64; the unwrap panics when it does not parse as a u16.
LineColField(field) ==
    IF IsSome(ParseI64(field))
    THEN IF IsSome(ParseU16(field)) THEN Ok(ParseU16(field)) ELSE Panic
    ELSE Ok(None)

\* ErrorLog::try_new
TryNew(input) ==
    IF Len(input) < 1 THEN Panic
    ELSE IF ~IsSome(ParseI64(input[1])) THEN Err("Expected i64-compatible string")
    ELSE IF Len(input) < 7 THEN Panic
    ELSE LET line == LineColField(input[6])
             col  == LineColField(input[7])
         IN  IF ~IsOk(line) \/ ~IsOk(col) THEN Panic
             ELSE Ok([raw           |-> Join(input),
                      datetime      |-> Unwrap(ParseI64(input[1])),
                      error_type    |-> input[2],
                      error_code    |-> NoneIfSentinel(input[3]),
                      error_message |-> input[4],
                      file_source   |-> NoneIfSentinel(input[5]),
                      file_line     |-> line.val,
                      file_col      |-> col.val])

(***************************************************************************)
(* ConfigManager: a settings file is TOML text, here the sequence of its   *)
(* tokens, a line being  key = value "\n"                                  *)
(***************************************************************************)
NoFile == [exists |-> FALSE, content |-> <<>>]

FileOf(text) == [exists |-> TRUE, content |-> text]

TomlLine(key, value) == <<key, "=", value, "\n">>

\* toml::to_string_pretty of a struct of optional fields: a None field is
\* left out.
TomlField(key, option) ==
    IF IsSome(option) THEN TomlLine(key, Unwrap(option)) ELSE <<>>

\* toml::from_str, up to the table of keys: the text's lines are well formed
\* (the last one may lack its line break) and no key is given twice.
TomlIsTable(text) ==
    /\ Len(text) % 4 \in {0, 3}
    /\ \A i \in 1..Len(text) :
          CASE i % 4 = 1 -> text[i] \notin {"=", "\n"}
            [] i % 4 = 2 -> text[i] = "="
            [] i % 4 = 3 -> text[i] \notin {"=", "\n"}
            [] OTHER     -> text[i] = "\n"
    /\ \A i, j \in 1..Len(text) :
          (i % 4 = 1 /\ j % 4 = 1 /\ i < j) => text[i] # text[j]

\* The value of a key of a table, None when the key is missing.
TomlGet(text, key) ==
    LET at == {i \in 1..Len(text) : i % 4 = 1 /\ text[i] = key}
    IN  IF at = {} THEN None ELSE Some(text[MinOf(at) + 2])

DefaultGlobalConfig == [api_key |-> None, api_url |-> None]

DefaultProjectConfig == [name |-> None, assets |-> None]

EncodeGlobalConfig(config) ==
    TomlField("api_key", config.api_key) \o TomlField("api_url", config.api_url)

DecodeGlobalConfig(text) ==
    [api_key |-> TomlGet(text, "api_key"), api_url |-> TomlGet(text, "api_url")]

DecodeProjectConfig(text) ==
    [name |-> TomlGet(text, "name"), assets |-> TomlGet(text, "assets")]

UNABLE_TO_READ == "Unable to read configuration file"

INVALID_FILE == "Invalid global configuration file"

COULD_NOT_WRITE == "Could not write the global configuration file"

IO_ERROR == "io error"

\* ConfigManager::open, up to the decoding of the table into the config type.
ConfigManagerOpen(file) ==
    IF ~file.exists THEN Err(UNABLE_TO_READ)
    ELSE IF ~TomlIsTable(file.content) THEN Err(INVALID_FILE)
    ELSE Ok(file.content)

\* What the file system may do to one save of text over file: fail to make
\* the directory (of a file that is not there), fail to open, fail the write
\* after the truncating open, take only the first n tokens of the write
\* (some, not all), or take them all.
IoChoices ==
    [kind : {"mkdir_fail", "open_fail", "write_fail", "full"}, n : {0}]
        \cup [kind : {"short"}, n : 0..7]

IoFeasible(file, text, io) ==
    CASE io.kind = "mkdir_fail" -> ~file.exists
      [] io.kind = "open_fail"  -> TRUE
      [] io.kind = "write_fail" -> Len(text) > 0
      [] io.kind = "short"      -> 0 < io.n /\ io.n < Len(text)
      [] OTHER                  -> TRUE

\* File::write, which whoever calls it must repeat until all is written.
WriteShort(file, text, io) ==
    [file |-> FileOf(SubSeq(text, 1, io.n)), ret |-> Ok(<<>>)]

\* ConfigManager::save: the file after the call, and what the call returns.
ConfigManagerSave(file, text, io) ==
    CASE io.kind = "mkdir_fail" -> [file |-> file, ret |-> Err(IO_ERROR)]
      [] io.kind = "open_fail"  -> [file |-> file, ret |-> Err(IO_ERROR)]
      [] io.kind = "write_fail" ->
             [file |-> FileOf(<<>>), ret |-> Err(COULD_NOT_WRITE)]
      [] io.kind = "short"      -> WriteShort(file, text, io)
      [] OTHER                  -> [file |-> FileOf(text), ret |-> Ok(<<>>)]

\* What a call saved: the file before, the text to write, the file after and
\* what save returned.
Saved(before, text, done) ==
    Some([before |-> before, text |-> text, after |-> done.file,
          ret |-> done.ret])

\* A create that saves the default settings whether or not the file exists.
ConfigManagerCreateAlways(file, defaultText, io) ==
    LET done == ConfigManagerSave(file, defaultText, io)
    IN  [file |-> done.file, ret |-> done.ret,
         save |-> Saved(file, defaultText, done)]

\* ConfigManager::create: the file after the call, what the call returns and
\* what it saved.
ConfigManagerCreate(file, defaultText, io) ==
    IF file.exists
    THEN [file |-> file, ret |-> Ok(<<>>), save |-> None]
    ELSE LET done == ConfigManagerSave(file, defaultText, io)
         IN  [file |-> done.file, ret |-> done.ret,
              save |-> Saved(file, defaultText, done)]

(***************************************************************************)
(* GlobalConfig and RequestContext                                         *)
(***************************************************************************)
\* The API keys of the model; shuttle_common's ApiKey::parse accepts the
\* valid ones.
ValidKeys == {"key1", "key2"}

BAD_KEY == "bad key"

INVALID_KEY == "The API key is not valid"

ApiKeyParse(key) == IF key \in ValidKeys THEN Ok(key) ELSE Err(INVALID_KEY)

API_URL_DEFAULT == "API_URL_DEFAULT"

API_URL_BETA == "API_URL_BETA"

ENV_INVALID == "environment variable SHUTTLE_API_KEY is invalid"

NO_KEY == "No valid API key found, try logging in first"

LOAD_FAILED == "Unable to load global configuration"

\* GlobalConfig::api_key
GlobalConfigApiKey(config) ==
    IF IsSome(config.api_key) THEN Some(ApiKeyParse(Unwrap(config.api_key)))
    ELSE None

\* std::env::var("SHUTTLE_API_KEY"): Ok for a variable that is set to valid
\* Unicode, Err(NotPresent) or Err(NotUnicode) otherwise.
EnvVar(e) == IF e.tag = "Unicode" THEN Ok(e.val) ELSE Err(e.tag)

\* RequestContext::load_global: the file after the call, what the call
\* returns and what it saved.
LoadGlobal(file, io) ==
    LET created == IF ~file.exists
                   THEN ConfigManagerCreate(
                            file, EncodeGlobalConfig(DefaultGlobalConfig), io)
                   ELSE [file |-> file, ret |-> Ok(<<>>), save |-> None]
        opened  == ConfigManagerOpen(created.file)
    IN  IF ~IsOk(created.ret)
        THEN [file |-> created.file, ret |-> created.ret, save |-> created.save]
        ELSE IF ~IsOk(opened)
        THEN [file |-> created.file, ret |-> Err(LOAD_FAILED),
              save |-> created.save]
        ELSE [file |-> created.file, save |-> created.save,
              ret  |-> Ok([global  |-> DecodeGlobalConfig(opened.val),
                           project |-> None,
                           api_url |-> None])]

\* RequestContext::set_api_url
SetApiUrlKeepsOverride(self, api_url) ==
    IF IsSome(api_url) THEN [self EXCEPT !.api_url = api_url] ELSE self

SetApiUrl(self, api_url) == [self EXCEPT !.api_url = api_url]

\* RequestContext::api_url
ApiUrl(self, beta) ==
    IF IsSome(self.api_url) THEN Unwrap(self.api_url)
    ELSE IF IsSome(self.global.api_url) THEN Unwrap(self.global.api_url)
    ELSE IF beta THEN API_URL_BETA
    ELSE API_URL_DEFAULT

\* RequestContext::api_key
ApiKey(self, e) ==
    IF IsOk(EnvVar(e))
    THEN IF IsOk(ApiKeyParse(EnvVar(e).val)) THEN ApiKeyParse(EnvVar(e).val)
         ELSE Err(ENV_INVALID)
    ELSE IF IsSome(GlobalConfigApiKey(self.global))
         THEN Unwrap(GlobalConfigApiKey(self.global))
         ELSE Err(NO_KEY)

\* RequestContext::set_api_key: the context and the file after the call, what
\* the call returns and what it saved.
SetApiKey(self, api_key, file, io) ==
    LET after == [self EXCEPT !.global.api_key = Some(api_key)]
        text  == EncodeGlobalConfig(after.global)
        done  == ConfigManagerSave(file, text, io)
    IN  [self |-> after, file |-> done.file, ret |-> done.ret,
         save |-> Saved(file, text, done)]

\* RequestContext::clear_api_key
ClearApiKey(self, file, io) ==
    LET after == [self EXCEPT !.global.api_key = None]
        text  == EncodeGlobalConfig(after.global)
        done  == ConfigManagerSave(file, text, io)
    IN  [self |-> after, file |-> done.file, ret |-> done.ret,
         save |-> Saved(file, text, done)]

NO_MANIFEST == "could not find the crate or workspace name"

\* RequestContext::get_local_config. args.workspace_path and
\* args.project_name are what ProjectArgs::workspace_path() and
\* ProjectArgs::project_name() return.
GetLocalConfigFileNameWins(files, args) ==
    LET dir    == IF IsSome(args.workspace_path)
                  THEN "workspace" ELSE "working_directory"
        opened == ConfigManagerOpen(files[dir])
        loaded == IF ~files[dir].exists THEN DefaultProjectConfig
                  ELSE DecodeProjectConfig(opened.val)
    IN  IF files[dir].exists /\ ~IsOk(opened) THEN opened
        ELSE IF IsSome(loaded.name)
        THEN Ok([manager |-> dir, config |-> Some(loaded)])
        ELSE IF IsSome(args.name)
        THEN Ok([manager |-> dir,
                 config  |-> Some([loaded EXCEPT !.name = args.name])])
        ELSE IF ~IsOk(args.project_name) THEN args.project_name
        ELSE Ok([manager |-> dir,
                 config  |-> Some([loaded EXCEPT
                                      !.name = Some(args.project_name.val)])])

GetLocalConfig(files, args) ==
    LET dir    == IF IsSome(args.workspace_path)
                  THEN "workspace" ELSE "working_directory"
        opened == ConfigManagerOpen(files[dir])
        loaded == IF ~files[dir].exists THEN DefaultProjectConfig
                  ELSE DecodeProjectConfig(opened.val)
    IN  IF files[dir].exists /\ ~IsOk(opened) THEN opened
        ELSE IF IsSome(args.name)
        THEN Ok([manager |-> dir,
                 config  |-> Some([loaded EXCEPT !.name = args.name])])
        ELSE IF IsSome(loaded.name)
        THEN Ok([manager |-> dir, config |-> Some(loaded)])
        ELSE IF ~IsOk(args.project_name) THEN args.project_name
        ELSE Ok([manager |-> dir,
                 config  |-> Some([loaded EXCEPT
                                      !.name = Some(args.project_name.val)])])

\* RequestContext::load_local: the context after the call, and what the call
\* returns.
LoadLocal(self, files, args) ==
    LET project == GetLocalConfig(files, args)
    IN  IF ~IsOk(project) THEN [self |-> self, ret |-> project]
        ELSE [self |-> [self EXCEPT !.project = Some(project.val)],
              ret  |-> Ok(<<>>)]

(***************************************************************************)
(* The texts the model draws its inputs from                               *)
(***************************************************************************)
DigitChar(d) == <<"0", "1", "2", "3", "4", "5", "6", "7", "8", "9">>[d + 1]

\* i64's Display, as format!("{time}") uses it.
RECURSIVE ToDecimal(_)
ToDecimal(n) ==
    IF n < 0 THEN <<"-">> \o ToDecimal(0 - n)
    ELSE IF n < 10 THEN <<DigitChar(n)>>
    ELSE ToDecimal(n \div 10) \o <<DigitChar(n % 10)>>

MSG == <<"m">>

\* What fields [5] and [6] are drawn from: the sentinel, text, the empty
\* field, numbers a u16 holds, signed numbers, numbers a u16 does not hold.
NumTexts ==
    { NONE_STR, <<"a", "b">>, <<>>, <<"1", "0">>, <<"+", "7">>,
      <<"6", "5", "5", "3", "5">>, <<"-", "1">>, <<"-", "0">>,
      <<"6", "5", "5", "3", "6">>, <<"7", "0", "0", "0", "0">> }

\* What field [0] is drawn from.
TsTexts == { <<"1">>, <<"-", "2">>, <<"x">>, <<>> }

TryNewInputs ==
    { <<ts, ERROR_STR, NONE_STR, MSG, NONE_STR, l, c>> :
          ts \in TsTexts, l \in NumTexts, c \in NumTexts }
    \cup { <<ts, ERROR_STR>> : ts \in TsTexts }

NotRun == [tag |-> "NotRun", val |-> <<>>]

NoCtx == <<>>

\* No configuration call has been made yet.
NoRet == [op |-> "none", arg |-> <<>>, self |-> NoCtx, ret |-> NotRun,
          save |-> None]

\* The configuration side at rest, for the specifications of the log side.
CfgIdle ==
    /\ env = [tag |-> "NotPresent"]
    /\ globalFile = NoFile
    /\ localFiles = [dir \in {"workspace", "working_directory"} |-> NoFile]
    /\ ctx = NoCtx
    /\ ret = NoRet

\* No log operation has run yet.
NoResult == [op |-> "none", input |-> <<>>, self |-> <<>>, ret |-> NotRun]

(***************************************************************************)
(* SpecParse: ErrorLog::try_new applied to one input                       *)
(***************************************************************************)
InitParse ==
    /\ tnInput \in TryNewInputs
    /\ tnResult = NotRun
    /\ logfile = [exists |-> FALSE, content |-> <<>>]
    /\ result = NoResult
    /\ CfgIdle

TryNewStep ==
    /\ tnResult = NotRun
    /\ tnResult' = TryNew(tnInput)
    /\ UNCHANGED <<tnInput, logfile, result, cfgVars>>

NextParse == TryNewStep

SpecParse == InitParse /\ [][NextParse]_vars

(***************************************************************************)
(* ErrorLogManager                                                         *)
(***************************************************************************)
NO_LOGS == "There is currently no logs that can be used with cargo shuttle explain"

NO_ERRORS == "There do not seem to be any errors to send"

NO_CREATE == "Could not create logfile"

\* ErrorLogManager::write: open(append, create), write_all(to_add).
AppendToLog(file, to_add) ==
    [exists |-> TRUE, content |-> file.content \o to_add]

\* The message write_generic_error formats.
GenericErrorLine(time, to_add) ==
    ToDecimal(time) \o DELIM \o ERROR_STR \o DELIM \o NONE_STR \o DELIM
        \o to_add \o DELIM \o NONE_STR \o DELIM \o NONE_STR \o DELIM
        \o NONE_STR \o NL

\* The loop of fetch_last_error_from_file over the lines before the last,
\* latest first: lines[i] is the line in hand, logs the batch so far.
RECURSIVE FetchScanNoBreak(_, _, _, _)
FetchScanNoBreak(lines, i, timestamp, logs) ==
    IF i = 0 THEN Ok(logs)
    ELSE LET thing == Split(lines[i])
             log   == TryNew(thing)
         IN  IF ~IsSome(ParseI64(thing[1])) THEN Panic
             ELSE IF Unwrap(ParseI64(thing[1])) # timestamp
                  THEN FetchScanNoBreak(lines, i - 1, timestamp, logs)
             ELSE IF ~IsOk(log) THEN Panic
             ELSE FetchScanNoBreak(lines, i - 1, timestamp,
                      IF log.val.error_type = ERROR_STR
                      THEN Append(logs, log.val) ELSE logs)

RECURSIVE FetchScan(_, _, _, _)
FetchScan(lines, i, timestamp, logs) ==
    IF i = 0 THEN Ok(logs)
    ELSE LET thing == Split(lines[i])
             log   == TryNew(thing)
         IN  IF ~IsSome(ParseI64(thing[1])) THEN Panic
             ELSE IF Unwrap(ParseI64(thing[1])) # timestamp THEN Ok(logs)
             ELSE IF ~IsOk(log) THEN Panic
             ELSE FetchScan(lines, i - 1, timestamp,
                      IF log.val.error_type = ERROR_STR
                      THEN Append(logs, log.val) ELSE logs)

\* fetch_last_error_from_file, from the text read from the log file on.
FetchFromBuf(buf) ==
    IF buf = <<>> THEN Err(NO_LOGS)
    ELSE LET lines == Lines(buf)
             log   == TryNew(Split(lines[Len(lines)]))
         IN  IF ~IsOk(log) THEN Panic
             ELSE LET first == IF log.val.error_type = ERROR_STR
                               THEN <<log.val>> ELSE <<>>
                      scan  == FetchScan(lines, Len(lines) - 1,
                                         log.val.datetime, first)
                  IN  IF ~IsOk(scan) THEN Panic
                      ELSE IF scan.val = <<>> THEN Err(NO_ERRORS)
                      ELSE Ok(scan.val)

(***************************************************************************)
(* ExplainStruct                                                           *)
(***************************************************************************)
\* The loop of ExplainStruct::try_from.
RECURSIVE TryFromScan(_, _, _, _)
TryFromScan(lines, i, timestamp, logs) ==
    IF i = 0 THEN Ok(logs)
    ELSE LET log_raw_as_vec == Split(lines[i])
             log            == TryNew(log_raw_as_vec)
         IN  IF ~IsSome(ParseI64(log_raw_as_vec[1])) THEN Panic
             ELSE IF Unwrap(ParseI64(log_raw_as_vec[1])) # timestamp
                  THEN Ok(logs)
             ELSE IF ~IsOk(log) THEN Panic
             ELSE TryFromScan(lines, i - 1, timestamp,
                      IF log.val.error_type = ERROR_STR
                      THEN Append(logs, log.val) ELSE logs)

\* impl TryFrom<String> for ExplainStruct
ExplainTryFrom(input) ==
    LET lines == Lines(input)
    IN  IF Len(lines) = 0 THEN Panic
        ELSE LET thing_as_str == TryNew(Split(lines[Len(lines)]))
             IN  IF ~IsOk(thing_as_str) THEN Panic
                 ELSE LET scan == TryFromScan(lines, Len(lines) - 1,
                                      thing_as_str.val.datetime,
                                      <<thing_as_str.val>>)
                      IN  IF ~IsOk(scan) THEN Panic
                          ELSE Ok([logs |-> scan.val, file_contents |-> <<>>])

\* impl From<Vec<ErrorLog>> for ExplainStruct
ExplainFrom(logs) == [logs |-> logs, file_contents |-> <<>>]

\* The source files on disk: std::fs::read_to_string succeeds on these.
SourceFiles == { <<"a">>, <<"b">> }

FileText(path) == <<"i">> \o path

\* FileContents::new
FileContentsNew(path) ==
    IF path \in SourceFiles
    THEN Ok([path |-> path, contents |-> FileText(path)])
    ELSE Panic

\* slice::sort_by(|a, b| a.path.partial_cmp(&b.path)): a stable sort, here by
\* insertion.
RECURSIVE InsertByPath(_, _)
InsertByPath(sorted, fc) ==
    IF sorted = <<>> THEN <<fc>>
    ELSE IF StrLess(fc.path, sorted[1].path)
         THEN <<fc>> \o sorted
         ELSE <<sorted[1]>> \o InsertByPath(Tail(sorted), fc)

RECURSIVE SortByPathFrom(_, _, _)
SortByPathFrom(v, i, sorted) ==
    IF i > Len(v) THEN sorted
    ELSE SortByPathFrom(v, i + 1, InsertByPath(sorted, v[i]))

SortByPathNot(v) == v

SortByPath(v) == SortByPathFrom(v, 1, <<>>)

\* Vec::dedup_by_key(|key| key.path): drops an element whose path equals the
\* path of the element kept before it.
RECURSIVE DedupFrom(_, _, _)
DedupFrom(v, i, kept) ==
    IF i > Len(v) THEN kept
    ELSE IF kept # <<>> /\ kept[Len(kept)].path = v[i].path
         THEN DedupFrom(v, i + 1, kept)
         ELSE DedupFrom(v, i + 1, Append(kept, v[i]))

DedupByPath(v) == DedupFrom(v, 1, <<>>)

\* ExplainStruct::fetch_file_contents_from_errlogs
FetchFileContentsFromErrlogs(self) ==
    LET withSource == SelectSeq(self.logs, LAMBDA x : IsSome(x.file_source))
        loaded     == [i \in 1..Len(withSource) |->
                          FileContentsNew(Unwrap(withSource[i].file_source))]
    IN  IF \E i \in 1..Len(loaded) : ~IsOk(loaded[i]) THEN Panic
        ELSE Ok([logs          |-> self.logs,
                 file_contents |->
                     DedupByPath(SortByPath(
                         [i \in 1..Len(loaded) |-> loaded[i].val]))])

\* fetch_last_error_from_file: the log file after the call, and what the call
\* returns. createOk: whether File::create_new succeeds when it is called.
FetchLastErrorFromFile(file, createOk) ==
    IF ~file.exists /\ ~createOk
    THEN [file |-> file, buf |-> <<>>, ret |-> Err(NO_CREATE)]
    ELSE LET opened == IF file.exists THEN file
                       ELSE [exists |-> TRUE, content |-> <<>>]
         IN  [file |-> opened, buf |-> opened.content,
              ret  |-> FetchFromBuf(opened.content)]

(***************************************************************************)
(* SpecLog: the log file is appended to, and batches are extracted from it *)
(***************************************************************************)
MaxLines == 3

MaxTime == 2

LogLine(ts, kind, src, line, col) ==
    Join(<<ts, kind, NONE_STR, MSG, src, line, col>>) \o NL

\* What ErrorLogManager::write is called with: well-formed lines of both
\* kinds, with a source file (readable or not), a line whose timestamp is no
\* number, and a line cut short. write_generic_error adds the lines without
\* a source file, at every time up to MaxTime.
ToAdd ==
    { LogLine(<<"2">>, ERROR_STR, <<"a">>, <<"1">>, <<"1">>),
      LogLine(<<"2">>, ERROR_STR, <<"b">>, <<"1">>, <<"1">>),
      LogLine(<<"2">>, WARNING_STR, <<"a">>, <<"1">>, <<"1">>),
      LogLine(<<"2">>, ERROR_STR, <<"g">>, <<"1">>, <<"1">>),
      LogLine(<<"x">>, ERROR_STR, NONE_STR, NONE_STR, NONE_STR),
      <<"2">> \o DELIM \o ERROR_STR \o NL }

InitLog ==
    /\ tnInput = <<>>
    /\ tnResult = NotRun
    /\ logfile = [exists |-> FALSE, content |-> <<>>]
    /\ result = NoResult
    /\ CfgIdle

LogHasRoom ==
    Cardinality({i \in 1..Len(logfile.content) : logfile.content[i] = "\n"})
        < MaxLines

\* ErrorLogManager::write. The command that logs an error is not the explain
\* command: it holds no batch.
Write ==
    /\ LogHasRoom
    /\ \E to_add \in ToAdd : logfile' = AppendToLog(logfile, to_add)
    /\ result' = NoResult
    /\ UNCHANGED <<tnInput, tnResult, cfgVars>>

\* ErrorLogManager::write_generic_error; time is what Utc::now().timestamp()
\* returns.
WriteGenericError ==
    /\ LogHasRoom
    /\ \E time \in 1..MaxTime :
          logfile' = AppendToLog(logfile, GenericErrorLine(time, MSG))
    /\ result' = NoResult
    /\ UNCHANGED <<tnInput, tnResult, cfgVars>>

\* ErrorLogManager::fetch_last_error_from_file
FetchLastError ==
    /\ \E createOk \in BOOLEAN :
          /\ logfile.exists => createOk
          /\ LET done == FetchLastErrorFromFile(logfile, createOk)
             IN  /\ logfile' = done.file
                 /\ result' = [op |-> "fetch", input |-> done.buf,
                               self |-> <<>>, ret |-> done.ret]
    /\ UNCHANGED <<tnInput, tnResult, cfgVars>>

\* ExplainStruct::from(logs), on the batch fetch_last_error_from_file gave
FromLogs ==
    /\ result.op = "fetch"
    /\ IsOk(result.ret)
    /\ result' = [op |-> "from", input |-> result.input, self |-> <<>>,
                  ret |-> Ok(ExplainFrom(result.ret.val))]
    /\ UNCHANGED <<tnInput, tnResult, logfile, cfgVars>>

\* ExplainStruct::try_from(input), on the text of the log
TryFromLog ==
    /\ result' = [op |-> "try_from", input |-> logfile.content,
                  self |-> <<>>, ret |-> ExplainTryFrom(logfile.content)]
    /\ UNCHANGED <<tnInput, tnResult, logfile, cfgVars>>

\* ExplainStruct::fetch_file_contents_from_errlogs
FetchFileContents ==
    /\ result.op \in {"from", "try_from"}
    /\ IsOk(result.ret)
    /\ result' = [op |-> "assemble", input |-> result.input,
                  self |-> result.ret.val,
                  ret |-> FetchFileContentsFromErrlogs(result.ret.val)]
    /\ UNCHANGED <<tnInput, tnResult, logfile, cfgVars>>

NextLog ==
    \/ Write
    \/ WriteGenericError
    \/ FetchLastError
    \/ FromLogs
    \/ TryFromLog
    \/ FetchFileContents

SpecLog == InitLog /\ [][NextLog]_vars

(***************************************************************************)
(* SpecExplain: a log given as text is turned into an ExplainStruct        *)
(***************************************************************************)
ERROR_CODE == <<"0", "6", "0", "1">>

\* The text tests::parsing_error_logs builds, and the texts of its shape:
\* five lines naming source files that can be read, the last one without a
\* line end, the first one older than the last or not, the others of either
\* kind at the last line's time, the last one with an error code or without.
ExplainLogs ==
    { LogLine(first, ERROR_STR, <<"a">>, <<"1">>, <<"1">>)
        \o LogLine(<<"2">>, k2, <<"a">>, <<"1">>, <<"1">>)
        \o LogLine(<<"2">>, k3, src, <<"1">>, <<"2">>)
        \o LogLine(<<"2">>, k4, <<"a">>, <<"1">>, <<"1">>)
        \o Join(<<<<"2">>, k5, code, MSG, <<"a">>, <<"1">>, <<"3">>>>) :
      first \in {<<"1">>, <<"2">>},
      k2 \in {ERROR_STR, WARNING_STR}, k3 \in {ERROR_STR, WARNING_STR},
      k4 \in {ERROR_STR, WARNING_STR}, k5 \in {ERROR_STR, WARNING_STR},
      src \in SourceFiles, code \in {NONE_STR, ERROR_CODE} }

InitExplain ==
    /\ tnInput = <<>>
    /\ tnResult = NotRun
    /\ logfile = [exists |-> FALSE, content |-> <<>>]
    /\ \E text \in ExplainLogs :
          result = [op |-> "input", input |-> text, self |-> <<>>,
                    ret |-> NotRun]
    /\ CfgIdle

\* ExplainStruct::try_from(input), on the text given
TryFromInput ==
    /\ result.op = "input"
    /\ result' = [op |-> "try_from", input |-> result.input, self |-> <<>>,
                  ret |-> ExplainTryFrom(result.input)]
    /\ UNCHANGED <<tnInput, tnResult, logfile, cfgVars>>

NextExplain ==
    \/ TryFromInput
    \/ FetchFileContents

SpecExplain == InitExplain /\ [][NextExplain]_vars

(***************************************************************************)
(* What the claims about the log speak of, stated on the text read         *)
(***************************************************************************)
\* The last operation was a batch extraction that read the log's text.
Extracted ==
    /\ result.op \in {"fetch", "try_from"}
    /\ result.ret # Err(NO_CREATE)

\* The batch a successful extraction returned.
Batch == IF result.op = "fetch" THEN result.ret.val ELSE result.ret.val.logs

InputLines == Lines(result.input)

TsOf(line) == ParseI64(Split(line)[1])

KindOf(line) == LET f == Split(line) IN IF Len(f) >= 2 THEN f[2] ELSE <<>>

LineDecodes(line) == IsOk(TryNew(Split(line)))

\* Where the maximal run of lines at the end of the log that carry the last
\* line's timestamp starts.
RunStart(lines) ==
    MinOf({k \in 1..Len(lines) :
              \A j \in k..Len(lines) : TsOf(lines[j]) = TsOf(lines[Len(lines)])})

TrailingRun(lines) == SubSeq(lines, RunStart(lines), Len(lines))

Raws(logs) == [i \in 1..Len(logs) |-> logs[i].raw]

RECURSIVE IsSubseq(_, _)
IsSubseq(a, b) ==
    IF a = <<>> THEN TRUE
    ELSE IF b = <<>> THEN FALSE
    ELSE IF a[1] = b[1] THEN IsSubseq(Tail(a), Tail(b))
    ELSE IsSubseq(a, Tail(b))

IsErrorLine(line) == KindOf(line) = ERROR_STR

\* C1: every record of a batch either extractor returns is a line of the
\* maximal run of lines at the end of the log that carry the last line's
\* timestamp, latest first: no record has another timestamp, and no line
\* before the first differing timestamp is in the batch.
C1_BatchIsFromTrailingRun ==
    (Extracted /\ IsOk(result.ret)) =>
        /\ \A i \in 1..Len(Batch) :
              Some(Batch[i].datetime) = TsOf(InputLines[Len(InputLines)])
        /\ IsSubseq(Raws(Batch), Reverse(TrailingRun(InputLines)))

\* A batch was extracted from a log of three lines whose first line, an error,
\* carries the last line's timestamp and whose second line does not.
C1_Witness ==
    /\ Extracted
    /\ IsOk(result.ret)
    /\ Len(InputLines) = 3
    /\ RunStart(InputLines) = 3
    /\ TsOf(InputLines[1]) = TsOf(InputLines[3])
    /\ LineDecodes(InputLines[1])
    /\ IsErrorLine(InputLines[1])
    /\ Len(Batch) = 1

\* C2: every record of a batch either extractor returns is of kind "error",
\* and the batch holds every error line of the trailing run.
C2_BatchIsTheErrorsOfTheRun ==
    (Extracted /\ IsOk(result.ret)) =>
        /\ \A i \in 1..Len(Batch) : Batch[i].error_type = ERROR_STR
        /\ Raws(Batch)
             = Reverse(SelectSeq(TrailingRun(InputLines), IsErrorLine))

\* C3: an extraction over an empty log gives the "no logs" error; one over a
\* log whose lines all decode and whose trailing run has no error line gives
\* the "nothing to explain" error; neither panics, and a batch returned is
\* not empty.
C3_TwoErrorOutcomes ==
    Extracted =>
        /\ result.input = <<>> => result.ret = Err(NO_LOGS)
        /\ ( /\ result.input # <<>>
             /\ \A i \in 1..Len(InputLines) : LineDecodes(InputLines[i])
             /\ SelectSeq(TrailingRun(InputLines), IsErrorLine) = <<>> )
           => result.ret = Err(NO_ERRORS)
        /\ IsOk(result.ret) => Batch # <<>>

\* C8: an extraction over a log with a line that does not decode does not
\* abort.
C8_DecodeFailureIsolated ==
    ( /\ Extracted
      /\ \E i \in 1..Len(InputLines) : ~LineDecodes(InputLines[i]) )
    => result.ret.tag # "Panic"

Paths(file_contents) ==
    [i \in 1..Len(file_contents) |-> file_contents[i].path]

\* C7: after fetch_file_contents_from_errlogs, file_contents holds one entry
\* for each source file the batch's records name, in ascending order of path
\* with no path twice, and logs is as it was.
C7_FileContentsDedupedAndSorted ==
    (result.op = "assemble" /\ IsOk(result.ret)) =>
        LET paths == Paths(result.ret.val.file_contents)
            logs  == result.self.logs
        IN  /\ {paths[i] : i \in 1..Len(paths)}
                 = {Unwrap(logs[i].file_source) :
                       i \in {j \in 1..Len(logs) : IsSome(logs[j].file_source)}}
            /\ \A i, j \in 1..Len(paths) : i < j => StrLess(paths[i], paths[j])
            /\ result.ret.val.logs = logs

\* The batch named "b", "a", "b" and a record without a source file never
\* came; two entries were loaded, "a" first.
C7_Witness ==
    /\ result.op = "assemble"
    /\ IsOk(result.ret)
    /\ Len(result.self.logs) = 3
    /\ result.self.logs[1].file_source = Some(<<"b">>)
    /\ result.self.logs[2].file_source = Some(<<"a">>)
    /\ result.self.logs[3].file_source = Some(<<"b">>)
    /\ Paths(result.ret.val.file_contents) = << <<"a">>, <<"b">> >>

\* C9: on a 7-field input with a valid timestamp, try_new returns a record
\* whose line and column are the fields' values when they are unsigned 16-bit
\* integers and absent otherwise, whatever the two fields hold.
C9_LineColNeverFail ==
    ( /\ tnResult # NotRun
      /\ Len(tnInput) = 7
      /\ IsSome(ParseI64(tnInput[1])) )
    => /\ IsOk(tnResult)
       /\ tnResult.val.file_line = ParseU16(tnInput[6])
       /\ tnResult.val.file_col = ParseU16(tnInput[7])

(***************************************************************************)
(* Spec: one process builds a RequestContext over the global settings file *)
(* and the environment, and resolves and sets the API key and the API URL  *)
(***************************************************************************)
LogIdle ==
    /\ tnInput = <<>>
    /\ tnResult = NotRun
    /\ logfile = NoFile
    /\ result = NoResult

\* SHUTTLE_API_KEY: not set, set to bytes that are not Unicode, set to a
\* valid key, set to a malformed key.
Envs ==
    { [tag |-> "NotPresent"], [tag |-> "NotUnicode"],
      [tag |-> "Unicode", val |-> "key2"],
      [tag |-> "Unicode", val |-> BAD_KEY] }

STORED_URL == "stored url"

\* config.toml as the process finds it: missing, holding any settings, or
\* holding what is no TOML.
InitialGlobalFiles ==
    { NoFile, FileOf(<<"garbage">>) }
    \cup { FileOf(EncodeGlobalConfig([api_key |-> k, api_url |-> u])) :
              k \in {None, Some("key1"), Some(BAD_KEY)},
              u \in {None, Some(STORED_URL)} }

Init ==
    /\ LogIdle
    /\ env \in Envs
    /\ globalFile \in InitialGlobalFiles
    /\ localFiles = [dir \in {"workspace", "working_directory"} |-> NoFile]
    /\ ctx = NoCtx
    /\ ret = NoRet

\* RequestContext::load_global()
LoadGlobalStep ==
    /\ ctx = NoCtx
    /\ \E io \in IoChoices :
          /\ IF globalFile.exists THEN io.kind = "full"
             ELSE IoFeasible(globalFile,
                             EncodeGlobalConfig(DefaultGlobalConfig), io)
          /\ LET done == LoadGlobal(globalFile, io)
             IN  /\ globalFile' = done.file
                 /\ ctx' = IF IsOk(done.ret) THEN done.ret.val ELSE NoCtx
                 /\ ret' = [op |-> "load_global", arg |-> <<>>, self |-> NoCtx,
                            ret |-> done.ret, save |-> done.save]
    /\ UNCHANGED <<logVars, env, localFiles>>

\* Config::create() on the global settings, before or after load_global
CreateStep ==
    /\ \E io \in IoChoices :
          /\ IF globalFile.exists THEN io.kind = "full"
             ELSE IoFeasible(globalFile,
                             EncodeGlobalConfig(DefaultGlobalConfig), io)
          /\ LET done == ConfigManagerCreate(
                             globalFile,
                             EncodeGlobalConfig(DefaultGlobalConfig), io)
             IN  /\ globalFile' = done.file
                 /\ ret' = [op |-> "create", arg |-> <<>>, self |-> ctx,
                            ret |-> done.ret, save |-> done.save]
    /\ UNCHANGED <<logVars, env, localFiles, ctx>>

Overrides == {None, Some("override url")}

\* RequestContext::set_api_url(api_url)
SetApiUrlStep ==
    /\ ctx # NoCtx
    /\ \E api_url \in Overrides :
          /\ ctx' = SetApiUrl(ctx, api_url)
          /\ ret' = [op |-> "set_api_url", arg |-> api_url, self |-> ctx,
                     ret |-> Ok(<<>>), save |-> None]
    /\ UNCHANGED <<logVars, env, globalFile, localFiles>>

\* RequestContext::api_url(beta)
ApiUrlStep ==
    /\ ctx # NoCtx
    /\ \E beta \in BOOLEAN :
          ret' = [op |-> "api_url", arg |-> beta, self |-> ctx,
                  ret |-> Ok(ApiUrl(ctx, beta)), save |-> None]
    /\ UNCHANGED <<logVars, env, globalFile, localFiles, ctx>>

\* RequestContext::api_key()
ApiKeyStep ==
    /\ ctx # NoCtx
    /\ ret' = [op |-> "api_key", arg |-> <<>>, self |-> ctx,
               ret |-> ApiKey(ctx, env), save |-> None]
    /\ UNCHANGED <<logVars, env, globalFile, localFiles, ctx>>

\* RequestContext::set_api_key(api_key)
SetApiKeyStep ==
    /\ ctx # NoCtx
    /\ \E api_key \in ValidKeys, io \in IoChoices :
          /\ IoFeasible(globalFile,
                 EncodeGlobalConfig(
                     [ctx.global EXCEPT !.api_key = Some(api_key)]), io)
          /\ LET done == SetApiKey(ctx, api_key, globalFile, io)
             IN  /\ ctx' = done.self
                 /\ globalFile' = done.file
                 /\ ret' = [op |-> "set_api_key", arg |-> api_key, self |-> ctx,
                            ret |-> done.ret, save |-> done.save]
    /\ UNCHANGED <<logVars, env, localFiles>>

\* RequestContext::clear_api_key()
ClearApiKeyStep ==
    /\ ctx # NoCtx
    /\ \E io \in IoChoices :
          /\ IoFeasible(globalFile,
                 EncodeGlobalConfig([ctx.global EXCEPT !.api_key = None]), io)
          /\ LET done == ClearApiKey(ctx, globalFile, io)
             IN  /\ ctx' = done.self
                 /\ globalFile' = done.file
                 /\ ret' = [op |-> "clear_api_key", arg |-> <<>>, self |-> ctx,
                            ret |-> done.ret, save |-> done.save]
    /\ UNCHANGED <<logVars, env, localFiles>>

Next ==
    \/ LoadGlobalStep
    \/ CreateStep
    \/ SetApiUrlStep
    \/ ApiUrlStep
    \/ ApiKeyStep
    \/ SetApiKeyStep
    \/ ClearApiKeyStep

Spec == Init /\ [][Next]_vars

(***************************************************************************)
(* SpecProject: the project settings are resolved                          *)
(***************************************************************************)
\* Shuttle.toml as the process finds it: missing, no TOML, or holding any
\* project settings.
ProjectFiles ==
    { NoFile, FileOf(<<"garbage">>) }
    \cup { FileOf(TomlField("name", n) \o TomlField("assets", a)) :
              n \in {None, Some("toml name")}, a \in {None, Some("assets")} }

\* What get_local_config is called with: a name or none, and what the
\* ProjectArgs methods return.
ProjectArgs ==
    [name           : {None, Some("cli name")},
     workspace_path : {None, Some("workspace")},
     project_name   : {Ok("crate name"), Err(NO_MANIFEST)}]

InitProject ==
    /\ LogIdle
    /\ env = [tag |-> "NotPresent"]
    /\ globalFile = FileOf(EncodeGlobalConfig(DefaultGlobalConfig))
    /\ localFiles \in [{"workspace", "working_directory"} -> ProjectFiles]
    /\ ctx = LoadGlobal(globalFile, [kind |-> "full", n |-> 0]).ret.val
    /\ ret = NoRet

\* RequestContext::get_local_config(project_args)
GetLocalConfigStep ==
    /\ \E args \in ProjectArgs :
          ret' = [op |-> "get_local_config", arg |-> args, self |-> NoCtx,
                  ret |-> GetLocalConfig(localFiles, args), save |-> None]
    /\ UNCHANGED <<logVars, env, globalFile, localFiles, ctx>>

\* RequestContext::load_local(project_args)
LoadLocalStep ==
    /\ \E args \in ProjectArgs :
          LET done == LoadLocal(ctx, localFiles, args)
          IN  /\ ctx' = done.self
              /\ ret' = [op |-> "load_local", arg |-> args, self |-> ctx,
                         ret |-> done.ret, save |-> None]
    /\ UNCHANGED <<logVars, env, globalFile, localFiles>>

NextProject ==
    \/ GetLocalConfigStep
    \/ LoadLocalStep

SpecProject == InitProject /\ [][NextProject]_vars

(***************************************************************************)
(* The claims about the configuration side                                 *)
(***************************************************************************)
EnvIsSet == env.tag # "NotPresent"

EnvIsWellFormed == env.tag = "Unicode" /\ IsOk(ApiKeyParse(env.val))

\* C4: whenever SHUTTLE_API_KEY is set, api_key() is decided by its value
\* alone: a well-formed value is returned, any other value gives the error
\* that names the environment variable, and the stored key is not consulted.
C4_EnvDecidesAlone ==
    (ret.op = "api_key" /\ EnvIsSet) =>
        IF EnvIsWellFormed THEN ret.ret = Ok(env.val)
        ELSE ret.ret = Err(ENV_INVALID)

\* C5: api_url(beta) returns the override when one is set, else the stored
\* URL when there is one, else the default URL that beta selects; and
\* set_api_url(u) leaves u as the override, None removing it, without touching
\* the stored settings.
C5_ApiUrlPrecedence ==
    /\ ret.op = "api_url" =>
          ret.ret = Ok(IF IsSome(ret.self.api_url)
                       THEN Unwrap(ret.self.api_url)
                       ELSE IF IsSome(ret.self.global.api_url)
                       THEN Unwrap(ret.self.global.api_url)
                       ELSE IF ret.arg THEN API_URL_BETA ELSE API_URL_DEFAULT)
    /\ ret.op = "set_api_url" =>
          /\ ctx.api_url = ret.arg
          /\ ctx.global = ret.self.global

\* The override was removed from a context that had one, over settings that
\* store a URL.
C5_WitnessRemoved ==
    /\ ret.op = "set_api_url"
    /\ ret.arg = None
    /\ IsSome(ret.self.api_url)
    /\ ctx.global.api_url = Some(STORED_URL)

\* The directory get_local_config looks for Shuttle.toml in.
DirOf(args) ==
    IF IsSome(args.workspace_path) THEN "workspace" ELSE "working_directory"

\* The name Shuttle.toml stores, None for a missing file or a missing key.
StoredName(args) ==
    IF localFiles[DirOf(args)].exists
    THEN TomlGet(localFiles[DirOf(args)].content, "name")
    ELSE None

\* C6: whenever get_local_config returns Ok, the name is populated: it is the
\* caller's name if one was given, else the name Shuttle.toml stores, else the
\* inferred name; when the name has to be inferred and the inference fails,
\* the failure is what get_local_config returns.
C6_LocalConfigName ==
    ret.op = "get_local_config" =>
        /\ IsOk(ret.ret) =>
              /\ IsSome(Unwrap(ret.ret.val.config).name)
              /\ Unwrap(ret.ret.val.config).name
                   = IF IsSome(ret.arg.name) THEN ret.arg.name
                     ELSE IF IsSome(StoredName(ret.arg)) THEN StoredName(ret.arg)
                     ELSE Some(ret.arg.project_name.val)
        /\ ( /\ ~IsSome(ret.arg.name)
             /\ ~IsSome(StoredName(ret.arg))
             /\ ~IsOk(ret.arg.project_name)
             /\ ConfigManagerOpen(localFiles[DirOf(ret.arg)]) # Err(INVALID_FILE) )
           => ret.ret = ret.arg.project_name

\* The caller gave a name, Shuttle.toml stores another, and the caller's is
\* the one in the settings returned.
C6_WitnessOverride ==
    /\ ret.op = "get_local_config"
    /\ IsOk(ret.ret)
    /\ ret.arg.name = Some("cli name")
    /\ StoredName(ret.arg) = Some("toml name")
    /\ Unwrap(ret.ret.val.config).name = Some("cli name")

\* C10: after every save, either it returned Ok and the file holds the whole
\* encoding, or it returned an error and the file is as it was.
C10_SaveAllOrNothing ==
    IsSome(ret.save) =>
        LET sv == Unwrap(ret.save)
        IN  \/ IsOk(sv.ret) /\ sv.after = FileOf(sv.text)
            \/ ~IsOk(sv.ret) /\ sv.after = sv.before

\* The in-memory settings a successful set_api_key(k) or clear_api_key() must
\* leave: key k, respectively no key, and the stored URL of before.
KeySetTo(op, arg, before) ==
    [before EXCEPT !.api_key = IF op = "set_api_key" THEN Some(arg) ELSE None]

\* C11: every step of a RequestContext that is a successful set_api_key(k) or
\* clear_api_key() ends with the in-memory GlobalConfig holding key k,
\* respectively no key, with api_url as before, and with the persisted file
\* equal to the encoding of that in-memory GlobalConfig; every step that is
\* api_key() or api_url() leaves the persisted file and the in-memory
\* settings as they were.
C11_KeyWritesPersistReadsChangeNothing ==
    [][ /\ (ret'.op \in {"set_api_key", "clear_api_key"} /\ IsOk(ret'.ret)) =>
              /\ ctx'.global = KeySetTo(ret'.op, ret'.arg, ctx.global)
              /\ globalFile' = FileOf(EncodeGlobalConfig(ctx'.global))
        /\ (ret'.op \in {"api_key", "api_url"}) =>
              /\ globalFile' = globalFile
              /\ ctx' = ctx ]_vars

\* C12: a Config::create over an existing file returns Ok, saves nothing and
\* leaves the file as it was, whatever it holds; a Config::create with no file
\* saves the default settings and nothing else; and a load_global over an
\* existing file leaves the file, with its stored key and URL, as it was.
C12_CreateNeverOverwrites ==
    [][ /\ (ret'.op = "create" /\ globalFile.exists) =>
              /\ IsOk(ret'.ret)
              /\ ret'.save = None
              /\ globalFile' = globalFile
        /\ (ret'.op = "create" /\ ~globalFile.exists) =>
              /\ IsSome(ret'.save)
              /\ Unwrap(ret'.save).before = globalFile
              /\ Unwrap(ret'.save).text =
                     EncodeGlobalConfig(DefaultGlobalConfig)
              /\ Unwrap(ret'.save).after = globalFile'
              /\ Unwrap(ret'.save).ret = ret'.ret
        /\ (ret'.op = "load_global" /\ globalFile.exists) =>
              /\ ret'.save = None
              /\ globalFile' = globalFile ]_vars

\* create has returned over the file a load_global found, which still holds
\* its stored key and URL.
C12_WitnessStoredKeyKept ==
    /\ ret.op = "create"
    /\ IsOk(ret.ret)
    /\ ret.save = None
    /\ ctx # NoCtx
    /\ ctx.global = [api_key |-> Some("key1"), api_url |-> Some(STORED_URL)]
    /\ globalFile = FileOf(EncodeGlobalConfig(ctx.global))

\* The source file a line names.
SrcOf(line) == LET f == Split(line) IN IF Len(f) >= 5 THEN f[5] ELSE <<>>

\* The log of tests::parsing_error_logs: one older line, then a run of four
\* lines at the last line's time, three of them errors and one a warning, the
\* last line an error, every line naming the same source file.
IsParsingErrorLogsInput(lines) ==
    /\ Len(lines) = 5
    /\ \A i \in 1..5 : LineDecodes(lines[i])
    /\ RunStart(lines) = 2
    /\ Cardinality({i \in 2..5 : KindOf(lines[i]) = ERROR_STR}) = 3
    /\ Cardinality({i \in 2..5 : KindOf(lines[i]) = WARNING_STR}) = 1
    /\ IsErrorLine(lines[5])
    /\ \A i \in 1..5 : SrcOf(lines[i]) = SrcOf(lines[5])

\* C13: for the log of tests::parsing_error_logs, try_from followed by
\* fetch_file_contents_from_errlogs gives four logs, as many as the lines of
\* the trailing run of the last line's time, and one file_contents.
C13_ParsingErrorLogsAssertions ==
    (result.op = "assemble" /\ IsParsingErrorLogsInput(InputLines)) =>
        /\ IsOk(result.ret)
        /\ Len(result.ret.val.logs) = 4
        /\ Len(result.ret.val.logs) = Len(TrailingRun(InputLines))
        /\ Len(result.ret.val.file_contents) = 1

=============================================================================
